---- MODULE Spec2Model ----
(***************************************************************************)
(* log-service: ArchiveLogs (the dispatcher), stepSaver (chunking, the     *)
(* periodic flush, Close) and logFile (one chunk: Write, Save, Close).     *)
(* One goroutine reads the emitter; closes of superseded steps, rotation   *)
(* saves and ticker flushes run on their own goroutines.                   *)
(***************************************************************************)
EXTENDS Integers, Sequences, FiniteSets, TLC

\* Bounds of the model.
MaxStream == 2
MaxLinesPerFile == 2
MaxTicks == 1
MaxCalls == 3
MaxDestLines == 2
MaxUploads == 2
MaxRetryMax == 2
MaxMsgChars == 4
MaxWrites == 2
MaxWorkers == 3

\* maxLineSize of logservice.go (5000 there), scaled to the messages met here.
maxLineSize == 3

\* Step names a record of the emitter can carry, and a line that is no JSON.
Steps == {"", "a"}
Malformed == "<malformed>"

VARIABLES
    linesPerFile,   \* app.linesPerFile
    input,          \* the lines ArchiveLogs has read so far (step name or Malformed)
    pc,             \* where ArchiveLogs is ("panic": it panicked)
    ret,            \* what ArchiveLogs returned
    panicked,       \* a goroutine panicked: the process is gone
    lastStep,       \* ArchiveLogs' lastStep
    stepSaver,      \* ArchiveLogs' stepSaver: an index into savers, 0 for nil
    stepWaitGroup,  \* ArchiveLogs' stepWaitGroup counter
    nilClose,       \* close goroutines started with a nil StepSaver, not yet run
    savers,         \* every stepSaver created, in creation order
    saves,          \* logFile.Save goroutines that have not returned
    ticks,          \* ticks delivered so far (bounded by MaxTicks)
    uploadFailed,   \* history: some Upload call returned an error
    unit            \* a logFile or an uploader exercised on its own, outside
                    \* ArchiveLogs (Idle in ArchiveLogs' own runs)

progVars == <<linesPerFile, input, pc, ret, panicked, lastStep, stepSaver,
              stepWaitGroup, nilClose, savers, saves, ticks, uploadFailed>>

vars == <<linesPerFile, input, pc, ret, panicked, lastStep, stepSaver,
          stepWaitGroup, nilClose, savers, saves, ticks, uploadFailed, unit>>

\* ---------------------------------------------------------------- helpers

Min(a, b) == IF a < b THEN a ELSE b

\* No unit is exercised on its own.
Idle == [of |-> "none"]

Running == pc # "returned" /\ ~panicked

\* path.Clean, as path.Join applies it, on the step names of the model: a
\* trailing slash is dropped.
Clean(name) == IF name = "a/" THEN "a" ELSE name

\* A destination that leaves the step name out.
DestinationWithoutStep(name, fileNum) == <<"", fileNum>>

\* A destination numbered from 1.
DestinationFromOne(name, fileNum) == <<Clean(name), fileNum + 1>>

\* stepSaver.Write: path.Join(s.StepName, fmt.Sprintf("log.%d", fileNum)), as
\* the pair of the cleaned directory and the number.
Destination(name, fileNum) == <<Clean(name), fileNum>>

\* newLogFile: a fresh temp file, nothing written, nothing saved.
NewLogFile(name, fileNum) ==
    [storePath |-> Destination(name, fileNum), lineCount |-> 0, savedLineCount |-> 0,
     file |-> TRUE, mutex |-> "free", uploads |-> {}, lines |-> <<>>,
     sending |-> <<>>, sent |-> <<>>]

\* NewStepSaver: no logFile yet, the ticker running, its goroutine waiting.
NewStepSaver(name) ==
    [StepName |-> name, lineCount |-> 0, logFiles |-> <<>>,
     ticker |-> "running",
     close |-> "open", background |-> FALSE, closeAt |-> 1, closeErr |-> FALSE,
     got |-> <<>>, reported |-> <<>>]

\* A chunk selection that counts the line being written.
FileNumFromOne(s) == (s.lineCount + 1) \div linesPerFile

\* stepSaver.Write: fileNum := s.lineCount / s.linesPerFile
FileNum(s) == s.lineCount \div linesPerFile

\* A Write that forgets to count the line.
SameLineCount(s) == s.lineCount

\* A Write that counts the line on its way in and again on its way out.
CountedTwice(s) == s.lineCount + 2

\* stepSaver.Write: defer func() { s.lineCount++ }()
NextLineCount(s) == s.lineCount + 1

\* A Save that saves the first logFile of the step only.
SaveFirstOnly(i, by) ==
    {[sv |-> i, f |-> j, by |-> by] : j \in 1..Min(1, Len(savers[i].logFiles))}

\* stepSaver.Save: one logFile.Save goroutine per logFile of the step.
SaveTasks(i, by) == {[sv |-> i, f |-> j, by |-> by] : j \in 1..Len(savers[i].logFiles)}

\* A Save that does not wait for its goroutines.
SaveNotAwaited(i, by) == TRUE

\* wg.Wait() of stepSaver.Save: the goroutines this Save started have returned.
SaveReturned(i, by) == ~\E t \in saves : t.sv = i /\ t.by = by

\* The values of the -lines-per-file flag (flag.IntVar takes any integer; the
\* default, 1000 in the program, is one of them) and of $SD_LINESPERFILE:
\* unset, not a number, or a decimal number.
FlagValues == 0..MaxLinesPerFile

EnvValues == {"", "many"} \cup {ToString(n) : n \in 0..MaxLinesPerFile}

\* strconv.Atoi: the number and no error, or 0 and an error.
Atoi(s) ==
    IF \E n \in 0..MaxLinesPerFile : ToString(n) = s
    THEN [l |-> CHOOSE n \in 0..MaxLinesPerFile : ToString(n) = s, err |-> FALSE]
    ELSE [l |-> 0, err |-> TRUE]

\* parseFlags: a set $SD_LINESPERFILE replaces the flag's value by what Atoi
\* returned, before err is looked at; the error is only logged.
parseFlags(flagValue, env) ==
    IF Len(env) # 0 THEN Atoi(env).l ELSE flagValue

\* The program as main leaves it when it calls ArchiveLogs.
InitProgram ==
    /\ linesPerFile \in {parseFlags(f, e) : f \in FlagValues, e \in EnvValues}
    /\ input = <<>>
    /\ pc = "read"
    /\ ret = "none"
    /\ panicked = FALSE
    /\ lastStep = ""
    /\ stepSaver = 0
    /\ stepWaitGroup = 0
    /\ nilClose = 0
    /\ savers = <<>>
    /\ saves = {}
    /\ ticks = 0
    /\ uploadFailed = FALSE

Init == InitProgram /\ unit = Idle

\* ------------------------------------------------------------ ArchiveLogs

\* stepSaver.Close begins: s.ticker.Stop(), then s.Save() starts its goroutines.
Closing(s) ==
    [s EXCEPT !.ticker = "stopped", !.close = "saving", !.closeAt = 1]

\* A step change that leaves the previous StepSaver alone.
RetireNothing(svs) == svs

\* The step change of ArchiveLogs: stepWaitGroup.Add(1), go safeClose(stepSaver)
\* for the previous StepSaver (nil at the first record), a.StepSaver(step).
Retire(svs) ==
    IF stepSaver = 0 THEN svs
    ELSE [svs EXCEPT ![stepSaver].close = "go", ![stepSaver].background = TRUE]

\* A decoder that takes every line for a record.
DecodeNeverFails(l) == FALSE

\* ArchiveLogs: if err := json.Unmarshal(line, &newLog); err != nil
DecodeError(l) == l = Malformed

\* readln gave a line; json.Unmarshal; on a new step the previous StepSaver is
\* handed to a close goroutine and the new one is created.
ReadLineUpTo(l, n) ==
    /\ Running /\ pc = "read"
    /\ Len(input) < n
    /\ input' = Append(input, l)
    /\ IF DecodeError(l)
       THEN /\ pc' = "returned" /\ ret' = "decodeErr"
            /\ UNCHANGED <<lastStep, stepSaver, stepWaitGroup, nilClose, savers>>
       ELSE /\ pc' = "write" /\ ret' = ret
            /\ IF l # lastStep
               THEN /\ stepWaitGroup' = stepWaitGroup + 1
                    /\ nilClose' = (IF stepSaver = 0 THEN nilClose + 1 ELSE nilClose)
                    /\ savers' = Append(Retire(savers), NewStepSaver(l))
                    /\ stepSaver' = Len(savers) + 1
                    /\ lastStep' = l
               ELSE UNCHANGED <<lastStep, stepSaver, stepWaitGroup, nilClose, savers>>
    /\ UNCHANGED <<unit, linesPerFile, panicked, saves, ticks, uploadFailed>>

\* The same, in a stream of at most MaxStream lines.
ReadLine(l) == ReadLineUpTo(l, MaxStream)

\* A safeClose without its nil check.
NilNotChecked(sv) == FALSE

\* safeClose: if c == nil { return nil }
IsNil(sv) == sv = 0

\* readln returned io.EOF: safeClose(stepSaver), synchronously (nothing to
\* close when it is nil; c.Close() on a nil StepSaver would panic).
ReadEOF ==
    /\ Running /\ pc = "read"
    /\ IF IsNil(stepSaver)
       THEN pc' = "wait" /\ UNCHANGED <<savers, saves, panicked>>
       ELSE IF stepSaver = 0
       THEN pc' = "panic" /\ panicked' = TRUE /\ UNCHANGED <<savers, saves>>
       ELSE /\ pc' = "closing"
            /\ savers' = [savers EXCEPT ![stepSaver] = Closing(@)]
            /\ saves' = saves \cup SaveTasks(stepSaver, "close")
            /\ panicked' = panicked
    /\ UNCHANGED <<unit, linesPerFile, input, ret, lastStep, stepSaver,
                   stepWaitGroup, nilClose, ticks, uploadFailed>>

\* readln returned another error.
ReadError ==
    /\ Running /\ pc = "read"
    /\ pc' = "returned" /\ ret' = "readErr"
    /\ UNCHANGED <<unit, linesPerFile, input, panicked, lastStep, stepSaver,
                   stepWaitGroup, nilClose, savers, saves, ticks, uploadFailed>>

\* ------------------------------------------------- stepSaver.WriteLog/Write

\* stepSaver.Write: "We have passed the linePerFile limit and need to create a new file"
NeedNewFile(s) == FileNum(s) >= Len(s.logFiles)

\* A rotation that saves the logFile it is about to create.
RotationSavesNewFile(i, s) ==
    IF FileNum(s) > 0 THEN {[sv |-> i, f |-> FileNum(s) + 1, by |-> "rotate"]} ELSE {}

\* The rotation's "go func() { s.LogFiles()[fileNum-1].Save() }()".
RotationSaves(i, s) ==
    IF FileNum(s) > 0 THEN {[sv |-> i, f |-> FileNum(s), by |-> "rotate"]} ELSE {}

\* stepSaver.WriteLog up to the logFile it writes to: the nil StepSaver, the
\* division by linesPerFile, the rotation and newLogFile (created says whether
\* ioutil.TempFile succeeded).
WriteLog(created) ==
    /\ Running /\ pc = "write"
    /\ IF stepSaver = 0
       THEN /\ created
            /\ panicked' = TRUE /\ pc' = "panic"
            /\ UNCHANGED <<ret, savers, saves>>
       ELSE LET s == [savers[stepSaver] EXCEPT !.got = Append(@, Len(input))] IN
            IF linesPerFile = 0
            THEN /\ created
                 /\ panicked' = TRUE /\ pc' = "panic"
                 /\ savers' = [savers EXCEPT ![stepSaver] = s]
                 /\ UNCHANGED <<ret, saves>>
            ELSE IF NeedNewFile(s)
            THEN /\ saves' = saves \cup RotationSaves(stepSaver, s)
                 /\ panicked' = panicked
                 /\ IF created
                    THEN /\ savers' = [savers EXCEPT ![stepSaver] =
                               [s EXCEPT !.logFiles =
                                   Append(@, NewLogFile(s.StepName, FileNum(s)))]]
                         /\ pc' = "fwrite" /\ ret' = ret
                    ELSE /\ savers' = [savers EXCEPT ![stepSaver] =
                               [s EXCEPT !.lineCount = NextLineCount(s)]]
                         /\ pc' = "returned" /\ ret' = "writeErr"
            ELSE /\ created
                 /\ savers' = [savers EXCEPT ![stepSaver] = s]
                 /\ pc' = "fwrite"
                 /\ UNCHANGED <<ret, panicked, saves>>
    /\ UNCHANGED <<unit, linesPerFile, input, lastStep, stepSaver, stepWaitGroup,
                   nilClose, ticks, uploadFailed>>

\* A dispatcher that forwards a record only once every close it started is over.
ForwardAfterClose(created) ==
    /\ stepWaitGroup = 0
    /\ WriteLog(created)

\* ArchiveLogs: if err := stepSaver.WriteLog(newLog); err != nil { return ... }
Forward(created) == WriteLog(created)

\* A logFile.Write that does not take the mutex.
WriteUnlocked(l) == FALSE

\* logFile.Write: l.mutex.Lock() has to wait while a Save holds the mutex.
WriteLocked(l) == l.mutex # "free"

\* s.LogFiles()[fileNum].Write(p), that is logFile.Write under the logFile's
\* mutex (written says whether file.Write succeeded), then the deferred
\* s.lineCount++ and the return to ArchiveLogs.
FileWrite(written) ==
    /\ Running /\ pc = "fwrite"
    /\ LET s == savers[stepSaver]
           j == FileNum(s) + 1
       IN  IF j > Len(s.logFiles)
           THEN /\ written
                /\ panicked' = TRUE /\ pc' = "panic"
                /\ UNCHANGED <<ret, savers>>
           ELSE /\ ~WriteLocked(s.logFiles[j])
                /\ panicked' = panicked
                /\ IF written
                   THEN /\ savers' = [savers EXCEPT ![stepSaver] =
                              [s EXCEPT !.lineCount = NextLineCount(s),
                                        !.logFiles[j].lineCount = @ + 1,
                                        !.logFiles[j].lines =
                                            Append(@, [n |-> s.lineCount,
                                                       rec |-> Len(input)])]]
                        /\ pc' = "read" /\ ret' = ret
                   ELSE /\ savers' = [savers EXCEPT ![stepSaver].lineCount =
                                                        NextLineCount(s)]
                        /\ pc' = "returned" /\ ret' = "writeErr"
    /\ UNCHANGED <<unit, linesPerFile, input, lastStep, stepSaver, stepWaitGroup,
                   nilClose, saves, ticks, uploadFailed>>

\* ----------------------------------------------------------- logFile.Save

\* A Save that uploads whether or not lines were added.
AlwaysSave(l) == FALSE

\* logFile.Save: if l.lineCount == l.savedLineCount { return nil }
NothingToSave(l) == l.lineCount = l.savedLineCount

\* A logFile.Save that does not take the mutex.
SaveUnlocked(l) == FALSE

\* logFile.Save: l.mutex.Lock() has to wait while a Save or a Write holds it.
SaveLocked(l) == l.mutex # "free"

\* logFile.Save up to the Upload call: the mutex, the lineCount ==
\* savedLineCount test, l.file.Name() (a nil l.file panics); Upload is handed
\* the temp file as it is (sending); uploads are the Saves whose Upload call
\* is under way.
SaveBegin(t) ==
    /\ Running /\ t \in saves
    /\ IF t.f > Len(savers[t.sv].logFiles)
       THEN /\ panicked' = TRUE
            /\ UNCHANGED <<savers, saves>>
       ELSE LET l == savers[t.sv].logFiles[t.f] IN
            /\ ~SaveLocked(l) /\ t.by \notin l.uploads
            /\ IF NothingToSave(l)
               THEN /\ saves' = saves \ {t}
                    /\ UNCHANGED <<savers, panicked>>
               ELSE IF ~l.file
               THEN /\ panicked' = TRUE
                    /\ UNCHANGED <<savers, saves>>
               ELSE /\ savers' = [savers EXCEPT ![t.sv].logFiles[t.f] =
                                      [l EXCEPT !.mutex = t.by, !.sending = l.lines,
                                                !.uploads = @ \cup {t.by}]]
                    /\ UNCHANGED <<saves, panicked>>
    /\ UNCHANGED <<unit, linesPerFile, input, pc, ret, lastStep, stepSaver,
                   stepWaitGroup, nilClose, ticks, uploadFailed>>

\* A Save that marks the logFile saved whatever Upload returned.
AfterUploadMarksSaved(l, ok) ==
    [l EXCEPT !.savedLineCount = l.lineCount,
              !.sent = IF ok THEN l.sending ELSE @,
              !.sending = <<>>, !.mutex = "free"]

\* A Save that counts one line too many.
AfterUploadOffByOne(l, ok) ==
    [l EXCEPT !.savedLineCount = IF ok THEN l.lineCount + 1 ELSE @,
              !.sent = IF ok THEN l.sending ELSE @,
              !.sending = <<>>, !.mutex = "free"]

\* logFile.Save after Upload returned (ok: without error):
\* "if err == nil { l.savedLineCount = l.lineCount }", then the deferred Unlock.
AfterUpload(l, ok) ==
    [l EXCEPT !.savedLineCount = IF ok THEN l.lineCount ELSE @,
              !.sent = IF ok THEN l.sending ELSE @,
              !.sending = <<>>, !.mutex = "free"]

\* Upload returned (ok: without error), and left u behind it.
UploadEndTo(t, ok, u) ==
    /\ Running /\ t \in saves
    /\ t.f <= Len(savers[t.sv].logFiles)
    /\ t.by \in savers[t.sv].logFiles[t.f].uploads
    /\ savers' = [savers EXCEPT ![t.sv].logFiles[t.f] =
                      [AfterUpload(@, ok) EXCEPT !.uploads = @ \ {t.by}]]
    /\ saves' = saves \ {t}
    /\ uploadFailed' = (uploadFailed \/ ~ok)
    /\ unit' = u
    /\ UNCHANGED <<linesPerFile, input, pc, ret, panicked, lastStep, stepSaver,
                   stepWaitGroup, nilClose, ticks>>

\* Upload of the network uploader returned.
UploadEnd(t, ok) == UploadEndTo(t, ok, unit)

\* -------------------------------------------------------- stepSaver.Close

\* stepSaver.Close returned: wg.Done() in the goroutine of a superseded step.
Done(s) == IF s.background THEN stepWaitGroup - 1 ELSE stepWaitGroup

\* A close goroutine whose failed Close ends ArchiveLogs.
CloseErrorEndsRun(s, err) ==
    IF s.background THEN (IF err THEN "returned" ELSE pc) ELSE "wait"

\* stepSaver.Close returned (err: with an error), and safeClose has logged the
\* error: the close goroutine leaves ArchiveLogs where it is; ArchiveLogs' own
\* safeClose(stepSaver) goes on to stepWaitGroup.Wait().
AfterClose(s, err) == IF s.background THEN pc ELSE "wait"

\* The close goroutine of the first step change: safeClose(nil) and wg.Done().
NilCloser ==
    /\ Running /\ nilClose > 0
    /\ nilClose' = nilClose - 1
    /\ stepWaitGroup' = stepWaitGroup - 1
    /\ UNCHANGED <<unit, linesPerFile, input, pc, ret, panicked, lastStep, stepSaver,
                   savers, saves, ticks, uploadFailed>>

\* The close goroutine of a superseded step runs: stepSaver.Close begins.
CloseBegin(i) ==
    /\ Running /\ savers[i].close = "go"
    /\ savers' = [savers EXCEPT ![i] = Closing(@)]
    /\ saves' = saves \cup SaveTasks(i, "close")
    /\ UNCHANGED <<unit, linesPerFile, input, pc, ret, panicked, lastStep, stepSaver,
                   stepWaitGroup, nilClose, ticks, uploadFailed>>

\* After s.Save() returned (always nil): logFile.Close of the next logFile,
\* under its mutex: a no-op on a nil file; else file.Close() ("closeErr" when
\* it fails, the file kept), l.file = nil and os.Remove ("removeErr" when it
\* fails). An error ends stepSaver.Close.
CloseFile(i, how) ==
    /\ Running /\ savers[i].close = "saving"
    /\ SaveReturned(i, "close")
    /\ savers[i].closeAt <= Len(savers[i].logFiles)
    /\ LET s == savers[i]
           j == s.closeAt
           l == s.logFiles[j]
       IN  /\ l.mutex = "free"
           /\ ~l.file => how = "ok"
           /\ IF how = "ok"
              THEN /\ savers' = [savers EXCEPT ![i].logFiles[j].file = FALSE,
                                               ![i].closeAt = j + 1]
                   /\ UNCHANGED <<stepWaitGroup, pc>>
              ELSE /\ savers' = [savers EXCEPT
                          ![i].logFiles[j].file = (how = "closeErr"),
                          ![i].close = "done", ![i].closeErr = TRUE]
                   /\ stepWaitGroup' = Done(s)
                   /\ pc' = AfterClose(s, TRUE)
    /\ UNCHANGED <<unit, linesPerFile, input, ret, panicked, lastStep, stepSaver,
                   nilClose, saves, ticks, uploadFailed>>

\* s.ScrewdriverAPI.UpdateStepLines(s.StepName, s.lineCount) and the return
\* of stepSaver.Close (ok: the API call succeeded).
Report(i, ok) ==
    /\ Running /\ savers[i].close = "saving"
    /\ SaveReturned(i, "close")
    /\ savers[i].closeAt > Len(savers[i].logFiles)
    /\ savers' = [savers EXCEPT ![i].reported = Append(@, savers[i].lineCount),
                                ![i].close = "done", ![i].closeErr = ~ok]
    /\ stepWaitGroup' = Done(savers[i])
    /\ pc' = AfterClose(savers[i], ~ok)
    /\ UNCHANGED <<unit, linesPerFile, input, ret, panicked, lastStep, stepSaver,
                   nilClose, saves, ticks, uploadFailed>>

\* ------------------------------------------------- the ticker's goroutine

\* A ticker goroutine that receives the tick and saves nothing.
TickWithoutSave(i) ==
    /\ Running /\ savers[i].ticker = "running"
    /\ SaveReturned(i, "tick")
    /\ ticks < MaxTicks
    /\ ticks' = ticks + 1
    /\ UNCHANGED <<unit, linesPerFile, input, pc, ret, panicked, lastStep, stepSaver,
                   stepWaitGroup, nilClose, savers, saves, uploadFailed>>

\* for range s.ticker.C { s.Save() }: the ticker delivers a tick, the goroutine
\* (waiting: its last Save has returned) receives it and Save starts its
\* goroutines. A tick that waits in ticker.C while the goroutine is busy is
\* delivered here once it waits again; the logFiles of a step no longer change
\* once its Close may run, so a tick received after Stop starts the same saves
\* as one received just before.
Tick(i) ==
    /\ Running /\ savers[i].ticker = "running"
    /\ SaveReturned(i, "tick")
    /\ ticks < MaxTicks
    /\ ticks' = ticks + 1
    /\ saves' = saves \cup SaveTasks(i, "tick")
    /\ UNCHANGED <<unit, linesPerFile, input, pc, ret, panicked, lastStep, stepSaver,
                   stepWaitGroup, nilClose, savers, uploadFailed>>

\* ------------------------------------------- ArchiveLogs, end of the stream

\* An ArchiveLogs that returns without the barrier.
ReturnWithoutWait ==
    /\ Running /\ pc = "wait"
    /\ pc' = "returned" /\ ret' = "nil"
    /\ UNCHANGED <<unit, linesPerFile, input, panicked, lastStep, stepSaver,
                   stepWaitGroup, nilClose, savers, saves, ticks, uploadFailed>>

\* stepWaitGroup.Wait(); return nil
Wait ==
    /\ Running /\ pc = "wait"
    /\ stepWaitGroup = 0
    /\ pc' = "returned" /\ ret' = "nil"
    /\ UNCHANGED <<unit, linesPerFile, input, panicked, lastStep, stepSaver,
                   stepWaitGroup, nilClose, savers, saves, ticks, uploadFailed>>

\* ------------------------------------------------------------------- Spec

Savers == 1..Len(savers)

Next ==
    \/ \E l \in Steps \cup {Malformed} : ReadLine(l)
    \/ ReadEOF
    \/ ReadError
    \/ \E created \in BOOLEAN : Forward(created)
    \/ \E written \in BOOLEAN : FileWrite(written)
    \/ \E t \in saves : SaveBegin(t)
    \/ \E t \in saves, ok \in BOOLEAN : UploadEnd(t, ok)
    \/ NilCloser
    \/ \E i \in Savers : CloseBegin(i)
    \/ \E i \in Savers, how \in {"ok", "closeErr", "removeErr"} : CloseFile(i, how)
    \/ \E i \in Savers, ok \in BOOLEAN : Report(i, ok)
    \/ \E i \in Savers : Tick(i)
    \/ Wait

Spec == Init /\ [][Next]_vars

\* The schedule the runtime gives the flush: a running ticker keeps delivering
\* ticks to its waiting goroutine (time.NewTicker(uploadInterval)), a started
\* logFile.Save goroutine gets to run and gets the mutex once it is free, and
\* an Upload call returns. Nothing makes ArchiveLogs' reader deliver a line.
Fairness ==
    /\ \A i \in 1..MaxStream : WF_vars(i \in Savers /\ Tick(i))
    /\ WF_vars(\E t \in saves : SaveBegin(t))
    /\ WF_vars(\E t \in saves, ok \in BOOLEAN : UploadEnd(t, ok))

LiveSpec == Spec /\ Fairness

\* The program when nothing fails: every line decodes, readln ends with EOF,
\* temp files are created, written, closed and removed, Upload and
\* UpdateStepLines succeed.
NextNoFault ==
    \/ \E l \in Steps : ReadLine(l)
    \/ ReadEOF
    \/ Forward(TRUE)
    \/ FileWrite(TRUE)
    \/ \E t \in saves : SaveBegin(t)
    \/ \E t \in saves : UploadEnd(t, TRUE)
    \/ NilCloser
    \/ \E i \in Savers : CloseBegin(i)
    \/ \E i \in Savers : CloseFile(i, "ok")
    \/ \E i \in Savers : Report(i, TRUE)
    \/ \E i \in Savers : Tick(i)
    \/ Wait

LiveSpecNoFault == Init /\ [][NextNoFault]_vars /\ Fairness

\* Step names that path.Join sends to one directory, next to those of Steps.
PathSteps == Steps \cup {"a/"}

\* The program when nothing fails and the run ends before the first tick, on
\* streams of one more line, over PathSteps.
PathNext ==
    \/ \E l \in PathSteps : ReadLineUpTo(l, MaxStream + 1)
    \/ ReadEOF
    \/ Forward(TRUE)
    \/ FileWrite(TRUE)
    \/ \E t \in saves : SaveBegin(t)
    \/ \E t \in saves : UploadEnd(t, TRUE)
    \/ NilCloser
    \/ \E i \in Savers : CloseBegin(i)
    \/ \E i \in Savers : CloseFile(i, "ok")
    \/ \E i \in Savers : Report(i, TRUE)
    \/ Wait

PathSpec == Init /\ [][PathNext]_vars

\* ------------------------------------------- units exercised on their own

\* ArchiveLogs is not running: nothing has been read, no StepSaver exists.
NoProgram ==
    /\ linesPerFile = MaxLinesPerFile
    /\ input = <<>> /\ pc = "read" /\ ret = "none" /\ panicked = FALSE
    /\ lastStep = "" /\ stepSaver = 0 /\ stepWaitGroup = 0 /\ nilClose = 0
    /\ savers = <<>> /\ saves = {} /\ ticks = 0 /\ uploadFailed = FALSE

\* ------------------------------ logFile.Close, called by several goroutines

Callers == 1..MaxCalls

\* One logFile as newLogFile leaves it (file: l.file is not nil; fdOpen: the
\* os.File is open; onDisk: the temp file exists), no goroutine in Close yet.
\* fcloses and removes count the f.Close() and os.Remove calls that succeeded;
\* late[c]: a Close had already returned nil when c got the mutex.
CloseInit ==
    /\ NoProgram
    /\ unit = [of |-> "logFile.Close", file |-> TRUE, mutex |-> 0,
               fdOpen |-> TRUE, onDisk |-> TRUE, fcloses |-> 0, removes |-> 0,
               at |-> [c \in Callers |-> "idle"],
               ret |-> [c \in Callers |-> "none"],
               late |-> [c \in Callers |-> FALSE]]

\* logFile.Close: l.mutex.Lock()
CloseLock(c) ==
    /\ unit.at[c] = "idle" /\ unit.mutex = 0
    /\ unit' = [unit EXCEPT !.mutex = c, !.at[c] = "locked",
                   !.late[c] = \E d \in Callers :
                                 unit.at[d] = "done" /\ unit.ret[d] = "nil"]
    /\ UNCHANGED progVars

\* logFile.Close: if l.file == nil { return nil }, and the deferred Unlock.
CloseNoOp(c) ==
    /\ unit.at[c] = "locked" /\ ~unit.file
    /\ unit' = [unit EXCEPT !.mutex = 0, !.at[c] = "done", !.ret[c] = "nil"]
    /\ UNCHANGED progVars

\* logFile.Close: f.Close() (ok: it succeeds, which takes an open os.File);
\* on an error the return, l.file kept; else l.file = nil.
CloseFd(c, ok) ==
    /\ unit.at[c] = "locked" /\ unit.file
    /\ ok => unit.fdOpen
    /\ unit' = IF ok
               THEN [unit EXCEPT !.fdOpen = FALSE, !.fcloses = @ + 1,
                                 !.file = FALSE, !.at[c] = "remove"]
               ELSE [unit EXCEPT !.mutex = 0, !.at[c] = "done", !.ret[c] = "err"]
    /\ UNCHANGED progVars

\* logFile.Close: return os.Remove(f.Name()) (ok: it succeeds, which takes an
\* existing file), and the deferred Unlock.
CloseRemove(c, ok) ==
    /\ unit.at[c] = "remove"
    /\ ok => unit.onDisk
    /\ unit' = IF ok
               THEN [unit EXCEPT !.onDisk = FALSE, !.removes = @ + 1,
                                 !.mutex = 0, !.at[c] = "done", !.ret[c] = "nil"]
               ELSE [unit EXCEPT !.mutex = 0, !.at[c] = "done", !.ret[c] = "err"]
    /\ UNCHANGED progVars

CloseNext ==
    \/ \E c \in Callers : CloseLock(c)
    \/ \E c \in Callers : CloseNoOp(c)
    \/ \E c \in Callers, ok \in BOOLEAN : CloseFd(c, ok)
    \/ \E c \in Callers, ok \in BOOLEAN : CloseRemove(c, ok)

CloseSpec == CloseInit /\ [][CloseNext]_vars

\* ----------------------------------- sdLocalUploader.Upload (resume-diff)

\* A file is the sequence of its bytes. NL is the newline; Letters are the
\* texts of the lines met here, one byte each. A stored line is at most
\* maxLineSize characters of message, far below bufio.Scanner's token limit,
\* and the writes to the destination are taken to succeed.
NL == "\n"
Letters == {"x", "y", "z"}

\* bufio.Scanner with ScanLines over the bytes f, cur being the line under
\* way: a token per newline, and the unterminated rest when it is not empty.
RECURSIVE ScanLines(_, _)
ScanLines(f, cur) ==
    IF f = <<>> THEN (IF cur = <<>> THEN <<>> ELSE <<cur>>)
    ELSE IF Head(f) = NL THEN <<cur>> \o ScanLines(Tail(f), <<>>)
    ELSE ScanLines(Tail(f), Append(cur, Head(f)))

\* The tokens scanner.Scan() / scanner.Text() yield for a file.
Scan(f) == ScanLines(f, <<>>)

\* A getLastLine that finds no line.
NoLastLine(f) == <<>>

\* getLastLine: the last line of non-zero length, "" when there is none.
getLastLine(f) ==
    LET toks == Scan(f)
        full == {k \in 1..Len(toks) : Len(toks[k]) > 0}
    IN IF full = {} THEN <<>>
       ELSE toks[CHOOSE k \in full : \A m \in full : m <= k]

\* A line written back without its newline.
SprintfNoNewline(text) == text

\* fmt.Sprintf("%s\n", inputScanner.Text())
Sprintf(text) == Append(text, NL)

\* A copy that replaces what the destination held.
CopyOver(output, in) == in

\* io.Copy(output, input) after input.Seek(0, 0), output opened O_APPEND.
Copy(output, in) == output \o in

\* The loop "for inputScanner.Scan()" of Upload over the tokens toks:
\* the bytes it writes and whether it matched.
RECURSIVE SkipLogged(_, _, _)
SkipLogged(toks, lastLine, matched) ==
    IF toks = <<>> THEN [out |-> <<>>, matched |-> matched]
    ELSE IF matched
    THEN LET r == SkipLogged(Tail(toks), lastLine, TRUE)
         IN [r EXCEPT !.out = Sprintf(Head(toks)) \o @]
    ELSE SkipLogged(Tail(toks), lastLine, lastLine = Head(toks))

\* sdLocalUploader.Upload when every call succeeds: the destination after it.
UploadLocal(output, in) ==
    LET lastLine == getLastLine(output)
        r == IF Len(lastLine) > 0 THEN SkipLogged(Scan(in), lastLine, FALSE)
             ELSE [out |-> <<>>, matched |-> FALSE]
        written == output \o r.out
    IN IF ~r.matched THEN Copy(written, in) ELSE written

\* s.encoder.Encode of the lines ls one after the other: each line and a newline.
RECURSIVE Encode(_)
Encode(ls) == IF ls = <<>> THEN <<>> ELSE <<Head(ls), NL>> \o Encode(Tail(ls))

SeqsUpTo(n) == UNION {[1..k -> Letters] : k \in 0..n}

\* The chunks a logFile can hold: each stored line carries its own line
\* number "n", so no two lines of a chunk are equal, and none is empty.
Chunks == {Encode(ls) : ls \in {q \in SeqsUpTo(Cardinality(Letters)) :
                                   \A a, b \in 1..Len(q) : q[a] = q[b] => a = b}}

\* The local log file before an Upload: what earlier uploads appended.
Destinations == {Encode(ls) : ls \in SeqsUpTo(MaxDestLines)}

\* hist: the Upload calls so far, each with the source it was given, the
\* destination before and after it and whether it returned nil.
UploadInit ==
    /\ NoProgram
    /\ \E src \in Chunks, dst \in Destinations :
           unit = [of |-> "sdLocalUploader.Upload", source |-> src,
                   dest |-> dst, hist |-> <<>>]

\* logFile.Write between two saves: one more line in the chunk.
ChunkWrite(c) ==
    /\ \A k \in 1..Len(Scan(unit.source)) : Scan(unit.source)[k] # <<c>>
    /\ unit' = [unit EXCEPT !.source = @ \o Encode(<<c>>)]
    /\ UNCHANGED progVars

\* sdLocalUploader.Upload(path, filePath). opened: os.Open(filePath),
\* os.OpenFile(s.logFile, ...) and the os.Open of getLastLine succeed; when
\* one fails Upload returns its error and has written nothing.
LocalUpload(opened) ==
    /\ Len(unit.hist) < MaxUploads
    /\ LET after == IF opened THEN UploadLocal(unit.dest, unit.source)
                    ELSE unit.dest
       IN unit' = [unit EXCEPT
                      !.dest = after,
                      !.hist = Append(@, [source |-> unit.source,
                                          before |-> unit.dest,
                                          after |-> after,
                                          nil |-> opened])]
    /\ UNCHANGED progVars

UploadNext ==
    \/ \E c \in Letters : ChunkWrite(c)
    \/ \E opened \in BOOLEAN : LocalUpload(opened)

UploadSpec == UploadInit /\ [][UploadNext]_vars

\* --------------------------------- sdStoreUploader.Upload (network, retries)

\* What one HTTP attempt can come to: a response with its status code, or a
\* transport error (a timeout, a refused or broken connection).
Answers ==
    {[err |-> FALSE, code |-> c] : c \in {200, 400, 404, 500, 503}}
        \cup {[err |-> TRUE, code |-> 0]}

\* put: if res.StatusCode/100 != 2
Not2xx(a) == a.code \div 100 # 2

\* The CheckRetry of the client NewStoreUploader builds with
\* retryablehttp.NewClient() and leaves as it is, the library's default
\* policy: a transport error is retried, and so is a response whose status is
\* 0 or in the 500 range; any other response is handed back to the caller.
CheckRetry(a) == a.err \/ a.code = 0 \/ a.code >= 500

\* One Upload call of an uploader built with maxRetries in 0..MaxRetryMax
\* (LOGSERVICE_STOREAPI_MAXRETRIES); answers: what its attempts came to;
\* names: the error returned holds the destination.
StoreInit ==
    /\ NoProgram
    /\ \E r \in 0..MaxRetryMax :
           unit = [of |-> "sdStoreUploader.Upload", RetryMax |-> r,
                   at |-> "start", answers |-> <<>>, ret |-> "none",
                   names |-> FALSE]

\* Upload: s.makeURL(storePath) fails; the error names file and storePath.
MakeURLFails ==
    /\ unit.at = "start"
    /\ unit' = [unit EXCEPT !.at = "returned", !.ret = "generating url",
                            !.names = TRUE]
    /\ UNCHANGED progVars

\* putFile: os.Open(filePath) or input.Stat() fails; Upload returns that error.
OpenFails ==
    /\ unit.at = "start"
    /\ unit' = [unit EXCEPT !.at = "returned", !.ret = "open", !.names = FALSE]
    /\ UNCHANGED progVars

\* put: s.client.StandardClient().Do(req) sends the request once more and gets
\* the answer a. The client stops on an answer it does not retry and hands it
\* to put, which returns "response code %d" unless it is a 2xx; it stops as
\* well when RetryMax retries are used up, with its error "PUT <url> giving
\* up after RetryMax+1 attempts"; Upload returns put's error as it is.
Attempt(a) ==
    /\ unit.at \in {"start", "do"}
    /\ LET n == Len(unit.answers) + 1
           u == [unit EXCEPT !.answers = Append(@, a)]
       IN unit' =
            IF ~CheckRetry(a)
            THEN [u EXCEPT !.at = "returned",
                           !.ret = IF Not2xx(a) THEN "response code" ELSE "nil",
                           !.names = FALSE]
            ELSE IF unit.RetryMax - (n - 1) <= 0
            THEN [u EXCEPT !.at = "returned", !.ret = "giving up",
                           !.names = TRUE]
            ELSE [u EXCEPT !.at = "do"]
    /\ UNCHANGED progVars

StoreNext ==
    \/ MakeURLFails
    \/ OpenFails
    \/ \E a \in Answers : Attempt(a)

StoreSpec == StoreInit /\ [][StoreNext]_vars

\* ------------------------------------------- stepSaver.WriteLog (truncation)

\* The characters of a message: "a" takes one byte in UTF-8 and "E" stands
\* for a character of two bytes (an accented letter). A Go string is its
\* bytes: lead and cont are the two bytes of "E".
Chars == {"a", "E"}
Messages == UNION {[1..k -> Chars] : k \in 0..MaxMsgChars}

\* The bytes of a string of characters.
RECURSIVE Utf8(_)
Utf8(m) ==
    IF m = <<>> THEN <<>>
    ELSE (IF Head(m) = "E" THEN <<"lead", "cont">> ELSE <<Head(m)>>) \o Utf8(Tail(m))

\* The characters a reader of the chunk gets for the bytes b: json.Encoder
\* writes valid UTF-8 as it is and U+FFFD in place of an incomplete sequence.
RECURSIVE Coerce(_)
Coerce(b) ==
    IF b = <<>> THEN <<>>
    ELSE IF Head(b) = "lead"
    THEN IF Len(b) >= 2 /\ b[2] = "cont"
         THEN <<"E">> \o Coerce(Tail(Tail(b)))
         ELSE <<"U+FFFD">> \o Coerce(Tail(b))
    ELSE IF Head(b) = "cont" THEN <<"U+FFFD">> \o Coerce(Tail(b))
    ELSE <<Head(b)>> \o Coerce(Tail(b))

\* fmt.Sprintf(" [line truncated after %d characters]", maxLineSize), as bytes.
Suffix == <<" [line truncated after maxLineSize characters]">>

\* WriteLog: if len(storedLine.Message) > maxLineSize, Message[:maxLineSize]
\* and the note; len and the slice count bytes.
Truncate(b) ==
    IF Len(b) > maxLineSize THEN SubSeq(b, 1, maxLineSize) \o Suffix ELSE b

\* One StepSaver and the last record it was given (in) and stored (out).
WriteLogInit ==
    /\ NoProgram
    /\ unit = [of |-> "stepSaver.WriteLog", lineCount |-> 0,
               in |-> [t |-> 0, m |-> <<>>],
               out |-> [t |-> 0, m |-> <<>>, n |-> 0]]

\* stepSaver.WriteLog(l) with a working encoder: the stored line, and the
\* lineCount++ of stepSaver.Write.
WriteLogLine(t, m) ==
    /\ unit.lineCount < MaxWrites
    /\ unit' = [unit EXCEPT
                   !.in = [t |-> t, m |-> m],
                   !.out = [t |-> t, m |-> Coerce(Truncate(Utf8(m))),
                            n |-> unit.lineCount],
                   !.lineCount = @ + 1]
    /\ UNCHANGED progVars

WriteLogNext == \E t \in 0..1, m \in Messages : WriteLogLine(t, m)

WriteLogSpec == WriteLogInit /\ [][WriteLogNext]_vars

\* ------------------------------------ the program with the local uploader

\* The text of a stored line, as the chunk holds it: the lines of a run differ
\* pairwise here, each being told by the record it was made from.
LineText(line) == ToString(line.rec)

\* The temp file of a logFile when Save hands it to Upload.
ChunkFile(lines) == Encode([k \in 1..Len(lines) |-> LineText(lines[k])])

\* app.Uploader with isLocal: one sdLocalUploader, hence one destination file
\* (a.artifactsLogFile) for every chunk of every step; dest is that file.
LocalInit ==
    /\ InitProgram
    /\ unit = [of |-> "app.Uploader (local)", dest |-> <<>>]

\* sdLocalUploader.Upload(l.storePath, l.file.Name()) returned nil: the chunk
\* went into the destination file, the store path playing no part.
LocalUploadEnd(t) ==
    /\ t.f <= Len(savers[t.sv].logFiles)
    /\ UploadEndTo(t, TRUE,
           [unit EXCEPT !.dest =
               UploadLocal(@, ChunkFile(savers[t.sv].logFiles[t.f].sending))])

\* The program in local mode when nothing fails.
LocalNext ==
    \/ \E l \in Steps : ReadLine(l)
    \/ ReadEOF
    \/ Forward(TRUE)
    \/ FileWrite(TRUE)
    \/ \E t \in saves : SaveBegin(t)
    \/ \E t \in saves : LocalUploadEnd(t)
    \/ NilCloser
    \/ \E i \in Savers : CloseBegin(i)
    \/ \E i \in Savers : CloseFile(i, "ok")
    \/ \E i \in Savers : Report(i, TRUE)
    \/ \E i \in Savers : Tick(i)
    \/ Wait

LocalSpec == LocalInit /\ [][LocalNext]_vars

\* ------------------- the flush worker of NewStepSaver and the ticker it reads

Workers == 1..MaxWorkers

\* ArchiveLogs has created no StepSaver yet. Of each StepSaver there is the
\* ticker (running or stopped), ticker.C (a channel of capacity 1: the ticks
\* waiting in it, and whether it was closed) and the goroutine of NewStepSaver
\* (at "range": about to receive from ticker.C; "save": in s.Save(); "exited").
TickerInit ==
    /\ NoProgram
    /\ unit = [of |-> "NewStepSaver", workers |-> <<>>, eof |-> FALSE]

\* NewStepSaver: time.NewTicker(uploadInterval) and go func(s) { ... }(s),
\* called by ArchiveLogs at a step change.
NewWorker ==
    /\ ~unit.eof /\ Len(unit.workers) < MaxWorkers
    /\ unit' = [unit EXCEPT !.workers =
                   Append(@, [ticker |-> "running", C |-> 0, closed |-> FALSE,
                              at |-> "range"])]
    /\ UNCHANGED progVars

\* The runtime's timer: a tick is sent on ticker.C while the ticker runs and
\* the channel has room (a tick that finds it full is dropped).
TickerFire(i) ==
    /\ i \in DOMAIN unit.workers
    /\ unit.workers[i].ticker = "running" /\ unit.workers[i].C = 0
    /\ unit' = [unit EXCEPT !.workers[i].C = 1]
    /\ UNCHANGED progVars

\* for range s.ticker.C: receive a tick and enter the body, or leave the loop
\* when the channel is closed and empty; blocked otherwise.
WorkerRange(i) ==
    /\ i \in DOMAIN unit.workers
    /\ unit.workers[i].at = "range"
    /\ unit.workers[i].C > 0 \/ unit.workers[i].closed
    /\ unit' = IF unit.workers[i].C > 0
               THEN [unit EXCEPT !.workers[i].C = 0, !.workers[i].at = "save"]
               ELSE [unit EXCEPT !.workers[i].at = "exited"]
    /\ UNCHANGED progVars

\* The loop body: s.Save() has returned, back to the range.
WorkerSaved(i) ==
    /\ i \in DOMAIN unit.workers
    /\ unit.workers[i].at = "save"
    /\ unit' = [unit EXCEPT !.workers[i].at = "range"]
    /\ UNCHANGED progVars

\* s.ticker.Stop() of stepSaver.Close: no more ticks are sent; the channel is
\* left as it is (time.Ticker.Stop does not close it).
Stop(w) == [w EXCEPT !.ticker = "stopped"]

\* stepSaver.Close, run by safeClose for the StepSaver a step change has
\* superseded, or for the last one once the stream has ended.
WorkerClose(i) ==
    /\ i \in DOMAIN unit.workers
    /\ unit.workers[i].ticker = "running"
    /\ i < Len(unit.workers) \/ unit.eof
    /\ unit' = [unit EXCEPT !.workers[i] = Stop(@)]
    /\ UNCHANGED progVars

\* readln returns EOF: ArchiveLogs leaves its loop.
EndOfStream ==
    /\ ~unit.eof
    /\ unit' = [unit EXCEPT !.eof = TRUE]
    /\ UNCHANGED progVars

TickerNext ==
    \/ NewWorker
    \/ EndOfStream
    \/ \E i \in Workers :
          \/ TickerFire(i)
          \/ WorkerRange(i)
          \/ WorkerSaved(i)
          \/ WorkerClose(i)

\* The Go scheduler runs every goroutine that can take a step; a running
\* ticker keeps firing. What the stream brings (a step change, its end) is
\* the build's doing and is promised by nothing.
TickerFairness ==
    \A i \in Workers :
        /\ WF_vars(TickerFire(i)) /\ WF_vars(WorkerRange(i))
        /\ WF_vars(WorkerSaved(i)) /\ WF_vars(WorkerClose(i))

TickerSpec == TickerInit /\ [][TickerNext]_vars /\ TickerFairness

\* ----------------------------------------------------------------- claims

\* The records decoded so far, as positions of input.
Decoded == {p \in 1..Len(input) : input[p] # Malformed}

\* The maximal runs of consecutive records with the same step name in the
\* first n lines of input: a sequence of [name, recs], recs the positions.
RECURSIVE RunsUpTo(_)
RunsUpTo(n) ==
    IF n = 0 \/ input[1] = Malformed THEN <<>>
    ELSE IF input[n] = Malformed THEN RunsUpTo(n - 1)
    ELSE IF n = 1 THEN <<[name |-> input[1], recs |-> <<1>>]>>
    ELSE LET r == RunsUpTo(n - 1) IN
         IF r[Len(r)].name = input[n]
         THEN [r EXCEPT ![Len(r)].recs = Append(@, n)]
         ELSE Append(r, [name |-> input[n], recs |-> <<n>>])

\* Every line stored for a step, chunk after chunk.
RECURSIVE StoredUpTo(_, _)
StoredUpTo(s, j) ==
    IF j = 0 THEN <<>> ELSE StoredUpTo(s, j - 1) \o s.logFiles[j].lines

Stored(s) == StoredUpTo(s, Len(s.logFiles))

Files(i) == 1..Len(savers[i].logFiles)

CleanReturn == pc = "returned" /\ ret = "nil"

\* C1: on clean end-of-stream ArchiveLogs returns only after the Close of the
\* final StepSaver has returned and every close goroutine started for a
\* superseded step has completed.
C1_DrainBarrier ==
    CleanReturn =>
        /\ stepWaitGroup = 0
        /\ nilClose = 0
        /\ \A i \in Savers : savers[i].close = "done"

\* A clean return after two steps, the first closed in the background after
\* its chunk was uploaded.
C1_Witness ==
    /\ CleanReturn
    /\ Len(savers) >= 2
    /\ savers[1].background /\ savers[1].close = "done"
    /\ savers[1].logFiles # <<>> /\ savers[1].logFiles[1].sent # <<>>

\* C2: with an uploader that never fails, when ArchiveLogs returns nil every
\* chunk has savedLineCount = lineCount, its last successful upload held all
\* its lines, and every record read is in such an upload.
C2_AllSavedOnCleanReturn ==
    (CleanReturn /\ ~uploadFailed) =>
        /\ \A i \in Savers : \A j \in Files(i) :
              LET l == savers[i].logFiles[j] IN
              /\ l.savedLineCount = l.lineCount
              /\ l.sent = l.lines
        /\ \A p \in Decoded : \E i \in Savers : \E j \in Files(i) :
              \E k \in 1..Len(savers[i].logFiles[j].sent) :
                  savers[i].logFiles[j].sent[k].rec = p

\* A clean return with no failed upload and a record in each of two steps.
C2_Witness ==
    /\ CleanReturn /\ ~uploadFailed
    /\ Len(savers) >= 2
    /\ \A i \in Savers : Len(Stored(savers[i])) >= 1

\* C3: if stepSaver.Close returns nil, every chunk of the step has
\* savedLineCount = lineCount.
C3_CloseNilMeansSaved ==
    \A i \in Savers :
        (savers[i].close = "done" /\ ~savers[i].closeErr) =>
            \A j \in Files(i) :
                savers[i].logFiles[j].savedLineCount = savers[i].logFiles[j].lineCount

\* C4: if the Close of the final StepSaver returns an error at end-of-stream,
\* ArchiveLogs returns an error.
C4_FinalCloseErrorSurfaced ==
    (/\ pc = "returned"
     /\ stepSaver # 0
     /\ ~savers[stepSaver].background
     /\ savers[stepSaver].close = "done"
     /\ savers[stepSaver].closeErr) => ret # "nil"

\* C5: one StepSaver per maximal run of records with the same step name, in
\* stream order, each given exactly the records of its run, in input order
\* (while a record waits to be forwarded, all but that record).
C5_OneSaverPerRun ==
    LET runs == RunsUpTo(Len(input)) IN
    /\ Len(savers) = Len(runs)
    /\ \A k \in 1..Len(runs) :
          /\ savers[k].StepName = runs[k].name
          /\ savers[k].got =
                IF pc = "write" /\ k = Len(runs)
                THEN SubSeq(runs[k].recs, 1, Len(runs[k].recs) - 1)
                ELSE runs[k].recs

\* C6: after N >= 1 writes with linesPerFile = L and no error, ceil(N / L)
\* chunks exist and chunk i (from 0) holds the records with sequence numbers
\* i*L .. min((i+1)*L, N) - 1, in input order.
C6_Chunking ==
    \A i \in Savers :
        LET s == savers[i]
            N == s.lineCount
            L == linesPerFile
        IN  (/\ N >= 1
             /\ ~(i = stepSaver /\ (pc = "fwrite" \/ ret = "writeErr"))) =>
                /\ Len(s.logFiles) = (N + L - 1) \div L
                /\ \A j \in 1..Len(s.logFiles) :
                      /\ Len(s.logFiles[j].lines) = Min(j * L, N) - (j - 1) * L
                      /\ \A k \in 1..Len(s.logFiles[j].lines) :
                            /\ s.logFiles[j].lines[k].n = (j - 1) * L + k - 1
                            /\ s.logFiles[j].lines[k].rec = s.got[(j - 1) * L + k]

\* Both shapes after two writes to one step: a rotation (one line per chunk,
\* two chunks of one line each) or a single chunk holding both lines.
C6_Witness ==
    \E i \in Savers :
        /\ pc = "read"
        /\ savers[i].lineCount = 2
        /\ \/ /\ linesPerFile = 1
              /\ Len(savers[i].logFiles) = 2
              /\ Len(savers[i].logFiles[2].lines) = 1
           \/ /\ linesPerFile = 2
              /\ Len(savers[i].logFiles) = 1
              /\ Len(savers[i].logFiles[1].lines) = 2

\* C7: the k-th record (from 0) written to a StepSaver is stored with n = k.
C7_SequenceNumbers ==
    \A i \in Savers :
        LET all == Stored(savers[i]) IN
        \A k \in 1..Len(all) :
            /\ all[k].n = k - 1
            /\ all[k].rec = savers[i].got[k]

\* Two records stored for one step.
C7_Witness ==
    \E i \in Savers : Len(Stored(savers[i])) >= 2

\* C8: a write never waits for an upload: when ArchiveLogs is about to write
\* into a logFile, no upload holds that logFile.
C8_WriteNeverWaitsForUpload ==
    pc = "fwrite" =>
        LET s == savers[stepSaver] IN
        s.logFiles[FileNum(s) + 1].mutex = "free"

\* C9: whatever the close of a previous step is doing, the dispatcher can
\* take its next step: read on, forward the record, and write it unless an
\* upload holds the logFile of the step being written.
C9_IngestionNotBlockedByClose ==
    /\ (Running /\ pc = "read" /\ Len(input) < MaxStream) =>
            \A l \in Steps : ENABLED ReadLine(l)
    /\ (Running /\ pc = "write") => ENABLED (\E c \in BOOLEAN : Forward(c))
    /\ (Running /\ pc = "fwrite"
        /\ savers[stepSaver].logFiles[FileNum(savers[stepSaver]) + 1].mutex = "free")
            => ENABLED (\E w \in BOOLEAN : FileWrite(w))

\* A record of the new step is stored while the close of the previous step
\* has not even started its final flush.
C9_Witness ==
    /\ Len(savers) >= 2
    /\ savers[1].close = "go"
    /\ Len(Stored(savers[2])) >= 1

\* C10: on every return of ArchiveLogs, every close goroutine it started has
\* completed: each StepSaver it handed to a close goroutine is closed.
C10_ClosersDoneOnEveryReturn ==
    pc = "returned" =>
        \A i \in Savers : savers[i].background => savers[i].close = "done"

\* C11: every stepSaver.Close that has returned has called UpdateStepLines
\* exactly once, after its final Save, with the step's final lineCount.
C11_ReportedOncePerClose ==
    \A i \in Savers : savers[i].close = "done" =>
        savers[i].reported = <<savers[i].lineCount>>

\* C12: once stepSaver.Close has returned, with or without an error, no
\* logFile of the step still holds its temp file.
C12_FilesReleasedAfterClose ==
    \A i \in Savers : savers[i].close = "done" =>
        \A j \in Files(i) : ~savers[i].logFiles[j].file

\* C13: a line that does not decode makes ArchiveLogs return an error at that
\* line: it is the last line read, it reached no StepSaver, and nothing is
\* forwarded any more.
C13_DecodeErrorStops ==
    \A p \in 1..Len(input) : input[p] = Malformed =>
        /\ p = Len(input)
        /\ pc = "returned" /\ ret = "decodeErr"
        /\ \A i \in Savers : \A k \in 1..Len(savers[i].got) : savers[i].got[k] < p
        /\ ~ENABLED (\E created \in BOOLEAN : Forward(created))
        /\ ~ENABLED (\E written \in BOOLEAN : FileWrite(written))

\* A record was stored, then a line failed to decode.
C13_Witness ==
    /\ Len(input) = 2 /\ input[2] = Malformed
    /\ Len(savers) = 1 /\ Len(Stored(savers[1])) = 1

\* The Close of a superseded step, run by its close goroutine, returned an error.
BackgroundCloseFailed(i) ==
    savers[i].background /\ savers[i].close = "done" /\ savers[i].closeErr

\* What ArchiveLogs returns by its own path: the decode error of the last line,
\* the error of the WriteLog that stored nothing, the read error that left the
\* current StepSaver open, or nil after the final close.
OwnReturn ==
    IF input[Len(input)] = Malformed THEN "decodeErr"
    ELSE IF savers[stepSaver].lineCount > Len(Stored(savers[stepSaver])) THEN "writeErr"
    ELSE IF savers[stepSaver].close = "open" THEN "readErr"
    ELSE "nil"

\* C14: after the background Close of a superseded step has failed, its
\* successor exists, ArchiveLogs can still read, forward and write, and what
\* ArchiveLogs returns is what its own path returns.
C14_BackgroundCloseFailureIgnored ==
    \A i \in Savers : BackgroundCloseFailed(i) =>
        /\ i < Len(savers) /\ stepSaver > i
        /\ (Running /\ pc = "read" /\ Len(input) < MaxStream) =>
                \A l \in Steps : ENABLED ReadLine(l)
        /\ (Running /\ pc = "write") => ENABLED (\E c \in BOOLEAN : Forward(c))
        /\ (Running /\ pc = "fwrite"
            /\ savers[stepSaver].logFiles[FileNum(savers[stepSaver]) + 1].mutex = "free")
                => ENABLED (\E w \in BOOLEAN : FileWrite(w))
        /\ pc = "returned" => ret = OwnReturn

\* The Close of the first step failed in the background, the record of the
\* second step was stored and ArchiveLogs returned nil.
C14_Witness ==
    /\ CleanReturn
    /\ Len(savers) = 2 /\ BackgroundCloseFailed(1)
    /\ Len(Stored(savers[2])) = 1

\* The save requests of rotations among the logFile.Save goroutines S.
RotateTasks(S) == {t \in S : t.by = "rotate"}

\* C15: a step of the program starts a rotation save exactly when stepSaver.Write
\* goes past the last logFile of a step that has one (whether or not the new
\* logFile can be created), and then exactly one, for the last logFile so far;
\* the first logFile of a step, a write into the current logFile and every
\* other step start none.
C15_OneSavePerRotation ==
    [][ LET started == RotateTasks(saves') \ RotateTasks(saves)
            n == IF stepSaver = 0 THEN 0 ELSE Len(savers[stepSaver].logFiles)
            rotation ==
                /\ pc = "write" /\ n >= 1
                /\ \/ Len(savers'[stepSaver].logFiles) = n + 1
                   \/ pc' = "returned" /\ ret' = "writeErr"
        IN  IF rotation
            THEN started = {[sv |-> stepSaver, f |-> n, by |-> "rotate"]}
            ELSE started = {} ]_vars

\* The second logFile of a step exists and the rotation save of the first is
\* under way.
C15_Witness ==
    /\ Len(savers) >= 1 /\ Len(savers[1].logFiles) = 2
    /\ [sv |-> 1, f |-> 1, by |-> "rotate"] \in saves

\* logFile j of StepSaver i exists and has lines no upload has saved.
Unsaved(i, j) ==
    /\ i \in Savers /\ j \in Files(i)
    /\ savers[i].logFiles[j].lineCount # savers[i].logFiles[j].savedLineCount

\* StepSaver i is open, the only one with a running ticker, and a tick is
\* still to come.
OnlyTicker(i) ==
    /\ i \in Savers /\ savers[i].close = "open" /\ pc # "returned"
    /\ ticks < MaxTicks
    /\ \A k \in Savers \ {i} : savers[k].ticker = "stopped"

\* C16: while a StepSaver is open, a logFile of it with unsaved lines gets
\* saved, even if no record is written any more, unless an upload fails; the
\* wait ends as well when the StepSaver is handed to Close or ArchiveLogs
\* returns. It holds under LiveSpecNoFault and under LiveSpec. (The i-th
\* StepSaver of a run gets at most MaxStream - i + 1 records, hence logFiles.)
C16_TickUploadsUnsaved ==
    \A i \in 1..MaxStream : \A j \in 1..(MaxStream - i + 1) :
        (Unsaved(i, j) /\ OnlyTicker(i))
            ~> \/ i \in Savers /\ j \in Files(i) /\ ~Unsaved(i, j)
               \/ uploadFailed
               \/ pc = "returned"
               \/ i \in Savers /\ savers[i].close # "open"

\* The only logFile of an open StepSaver was uploaded: nothing but a tick can
\* have started that save.
C16_Witness ==
    /\ Len(savers) = 1 /\ savers[1].close = "open"
    /\ Len(savers[1].logFiles) = 1
    /\ savers[1].logFiles[1].savedLineCount = 1
    /\ ticks = 1

\* The logFile a logFile.Save goroutine works on.
FileOf(t) == savers[t.sv].logFiles[t.f]

\* The logFile.Save goroutines started by the Save "by" of StepSaver i that
\* have not returned.
Pending(i, by) == {t \in saves : t.sv = i /\ t.by = by}

\* C17: a stepSaver.Save starts one logFile.Save for every logFile of the step;
\* each of them ends only when it found nothing to save or its Upload call
\* returned; a failed Upload ends its own goroutine only and leaves Close where
\* it is, without an error; and Close goes on to the logFiles only when every
\* goroutine of its Save has ended.
C17_SaveAttemptsAll ==
    /\ [][ /\ \A i \in Savers : \A by \in {"tick", "close"} :
                (Pending(i, by) = {} /\ Pending(i, by)' # {}) =>
                    \A j \in Files(i) : [sv |-> i, f |-> j, by |-> by] \in saves'
           /\ \A t \in saves \ saves' :
                \/ FileOf(t).lineCount = FileOf(t).savedLineCount
                \/ FileOf(t).mutex = t.by /\ FileOf(t)'.mutex = "free"
           /\ \A t \in saves \ saves' :
                FileOf(t)'.lineCount # FileOf(t)'.savedLineCount =>
                    /\ saves' = saves \ {t}
                    /\ savers'[t.sv].close = savers[t.sv].close
                    /\ savers'[t.sv].closeErr = savers[t.sv].closeErr
         ]_vars
    /\ [](\A i \in Savers :
            (savers[i].close = "done" \/ (savers[i].close = "saving" /\ savers[i].closeAt > 1))
                => Pending(i, "close") = {})

\* No tick came; the uploads of the first logFile all failed, the second was
\* uploaded all the same by the Save of Close, and Close returned nil.
C17_Witness ==
    /\ ticks = 0 /\ Len(savers) = 1 /\ Len(savers[1].logFiles) = 2
    /\ savers[1].close = "done" /\ ~savers[1].closeErr
    /\ savers[1].logFiles[1].savedLineCount = 0
    /\ savers[1].logFiles[2].savedLineCount = 1

\* C18: when the Upload of a logFile.Save fails (the goroutine ends holding the
\* mutex and nothing new counts as sent), the logFile keeps its lineCount,
\* savedLineCount, lines and temp file and is still unsaved; and a later
\* logFile.Save that finds it unsaved, with its temp file, calls Upload again.
C18_FailedUploadChangesNothing ==
    /\ [][ \A t \in saves \ saves' :
              (FileOf(t).mutex = t.by /\ FileOf(t)'.sent = FileOf(t).sent) =>
                  /\ FileOf(t)'.lineCount = FileOf(t).lineCount
                  /\ FileOf(t)'.savedLineCount = FileOf(t).savedLineCount
                  /\ FileOf(t)'.lines = FileOf(t).lines
                  /\ FileOf(t)'.file = FileOf(t).file
                  /\ FileOf(t)'.lineCount # FileOf(t)'.savedLineCount
         ]_vars
    /\ [](\A t \in saves :
            (Running /\ Unsaved(t.sv, t.f) /\ FileOf(t).file /\ FileOf(t).mutex = "free")
                => ENABLED (SaveBegin(t) /\ FileOf(t)'.mutex = t.by))

\* The only logFile of the run is saved although an upload of it failed.
C18_Witness ==
    /\ uploadFailed
    /\ Len(savers) = 1 /\ Len(savers[1].logFiles) = 1
    /\ savers[1].logFiles[1].savedLineCount = 1

\* C19: every logFile ever created has lineCount >= savedLineCount >= 0.
C19_SavedAtMostTotal ==
    \A i \in Savers : \A j \in Files(i) :
        /\ savers[i].logFiles[j].savedLineCount >= 0
        /\ savers[i].logFiles[j].lineCount >= savers[i].logFiles[j].savedLineCount

\* A logFile was uploaded with one line and has got another since.
C19_Witness ==
    \E i \in Savers : \E j \in Files(i) :
        /\ savers[i].logFiles[j].savedLineCount = 1
        /\ savers[i].logFiles[j].lineCount = 2

\* C20: a logFile with at least one line whose savedLineCount equals its
\* lineCount has had every line written to it so far in the temp file that its
\* last successful Upload was handed.
C20_SavedMeansUploaded ==
    \A i \in Savers : \A j \in Files(i) :
        LET l == savers[i].logFiles[j] IN
        (l.lineCount >= 1 /\ l.savedLineCount = l.lineCount) =>
            /\ Len(l.lines) = l.lineCount
            /\ \A k \in 1..Len(l.lines) : \E m \in 1..Len(l.sent) : l.sent[m] = l.lines[k]

\* A logFile with two lines, saved after a tick and the Save of Close: both
\* lines are in the temp file its last Upload was handed.
C20_Witness ==
    \E i \in Savers : \E j \in Files(i) :
        /\ savers[i].logFiles[j].lineCount = 2
        /\ savers[i].logFiles[j].savedLineCount = 2
        /\ Len(savers[i].logFiles[j].sent) = 2
        /\ ticks = 1 /\ savers[i].close = "done" /\ uploadFailed = FALSE

\* C21: an Upload is under way only on a logFile with unsaved lines, and a
\* logFile.Save that finds lineCount = savedLineCount (as the second of two
\* Saves does after the first one's Upload succeeded, no Write in between)
\* returns without calling Upload and without touching the logFile.
C21_SaveIdempotent ==
    /\ \A i \in Savers : \A j \in Files(i) :
            savers[i].logFiles[j].mutex # "free" =>
                savers[i].logFiles[j].lineCount # savers[i].logFiles[j].savedLineCount
    /\ \A t \in saves :
            (Running /\ t.f <= Len(savers[t.sv].logFiles)
             /\ FileOf(t).mutex = "free"
             /\ FileOf(t).lineCount = FileOf(t).savedLineCount) =>
                /\ ENABLED (SaveBegin(t) /\ savers' = savers /\ ~panicked')
                /\ ~ENABLED (SaveBegin(t) /\ savers' # savers)

\* The Upload of a tick's Save succeeded and the Save of Close is about to
\* look at the same logFile, no line written in between.
C21_Witness ==
    \E t \in saves :
        /\ t.by = "close" /\ t.f <= Len(savers[t.sv].logFiles)
        /\ FileOf(t).mutex = "free"
        /\ FileOf(t).lineCount = 1 /\ FileOf(t).savedLineCount = 1
        /\ FileOf(t).sent = FileOf(t).lines
        /\ ticks = 1

\* C22: a logFile never has two Upload calls under way; and once the Saves
\* started for a logFile that was rotated out of (the rotation's and any
\* tick's) have all returned without a failed Upload, its savedLineCount
\* equals its lineCount.
C22_UploadsSerialized ==
    \A i \in Savers : \A j \in Files(i) :
        LET l == savers[i].logFiles[j] IN
        /\ Cardinality(l.uploads) <= 1
        /\ l.uploads # {} => l.mutex \in l.uploads
        /\ (j < Len(savers[i].logFiles) /\ ~uploadFailed
            /\ ~\E t \in saves : t.sv = i /\ t.f = j)
                => l.savedLineCount = l.lineCount

\* The rotation's Save and a tick's Save of the same logFile race: one is
\* uploading, the other waits for the mutex.
C22_Witness ==
    \E i \in Savers : \E j \in Files(i) :
        /\ [sv |-> i, f |-> j, by |-> "rotate"] \in saves
        /\ [sv |-> i, f |-> j, by |-> "tick"] \in saves
        /\ savers[i].logFiles[j].uploads # {}

\* C23: however many goroutines call logFile.Close, the temp file is closed
\* at most once and removed at most once; once a Close has returned nil it has
\* been closed and removed; and a Close that gets the mutex after one has
\* returned nil returns nil.
C23_CloseIdempotent ==
    unit.of = "logFile.Close" =>
        /\ unit.fcloses <= 1 /\ unit.removes <= 1
        /\ (\E c \in Callers : unit.at[c] = "done" /\ unit.ret[c] = "nil")
                => unit.fcloses = 1 /\ unit.removes = 1
        /\ \A c \in Callers :
                (unit.late[c] /\ unit.at[c] = "done") => unit.ret[c] = "nil"

\* The logFile has been handed to an Upload call.
Uploaded(l) == l.sent # <<>> \/ l.uploads # {}

\* No two StepSavers have uploaded to the same destination.
DistinctDestinations ==
    \A i \in Savers : \A k \in Savers : i < k =>
        \A j \in Files(i) : \A m \in Files(k) :
            (Uploaded(savers[i].logFiles[j]) /\ Uploaded(savers[k].logFiles[m]))
                => savers[i].logFiles[j].storePath # savers[k].logFiles[m].storePath

\* The records that name one directory carry one step name and follow each
\* other: no step comes back after another step, under the same name or under
\* a name that path.Join sends to the same directory.
StepsNeverReopened ==
    \A p \in Decoded : \A r \in Decoded :
        (p < r /\ Clean(input[p]) = Clean(input[r])) =>
            \A q \in p..r : input[q] = input[p]

\* C24, as stated: no two StepSavers of a run upload to the same destination.
C24_DistinctDestinations == DistinctDestinations

\* C24, amended: no two StepSavers of a run upload to the same destination,
\* provided no step is reopened after it was superseded.
C24_DistinctDestinationsIfNeverReopened ==
    StepsNeverReopened => DistinctDestinations

\* Two StepSavers of two steps have each uploaded their first logFile.
C24_Witness ==
    /\ StepsNeverReopened
    /\ Len(savers) = 2
    /\ Len(savers[1].logFiles) >= 1 /\ Uploaded(savers[1].logFiles[1])
    /\ Len(savers[2].logFiles) >= 1 /\ Uploaded(savers[2].logFiles[1])

\* The record at which StepSaver j was created: the first one it was given,
\* or the one just read while its first WriteLog has not begun.
Born(j) == IF savers[j].got # <<>> THEN savers[j].got[1] ELSE Len(input)

\* C25: at a step change the close of the previous StepSaver is initiated (its
\* close goroutine is started) before the new step's first record is written,
\* and a superseded StepSaver is given no record after the one that superseded
\* it: every record it got precedes the creation of its successor, and the
\* records go to the StepSaver of the current step only.
C25_SupersededSealed ==
    /\ stepSaver \in {0, Len(savers)}
    /\ \A i \in Savers : \A j \in Savers :
           i < j =>
               /\ savers[i].close # "open"
               /\ savers[i].background
               /\ \A q \in 1..Len(savers[i].got) : savers[i].got[q] < Born(j)

C25_Witness ==
    /\ Len(savers) >= 2
    /\ savers[1].got # <<>>
    /\ savers[2].got # <<>>
    /\ savers[1].close = "go"

\* The Upload calls made so far.
Calls == 1..Len(unit.hist)

\* The file made of the lines toks, each ended by a newline.
RECURSIVE Terminated(_)
Terminated(toks) ==
    IF toks = <<>> THEN <<>> ELSE Head(toks) \o <<NL>> \o Terminated(Tail(toks))

\* C26: resume-diff. When the source is a chunk of pairwise distinct non-empty
\* lines and the lines of the destination are a non-empty prefix of them, a
\* successful Upload leaves the destination with exactly the lines of the
\* source, the old ones untouched and only the missing ones appended.
C26_ResumeDiff ==
    \A k \in Calls :
        LET h == unit.hist[k]
            src == Scan(h.source)
            dst == Scan(h.before)
        IN (/\ h.nil
            /\ \A a, b \in 1..Len(src) : src[a] = src[b] => a = b
            /\ \A a \in 1..Len(src) : src[a] # <<>>
            /\ dst # <<>>
            /\ Len(dst) <= Len(src)
            /\ dst = SubSeq(src, 1, Len(dst)))
           => /\ Scan(h.after) = src
              /\ h.after = h.before \o Terminated(SubSeq(src, Len(dst) + 1, Len(src)))

C26_Witness ==
    \E k \in Calls :
        /\ unit.hist[k].nil
        /\ Len(Scan(unit.hist[k].before)) = 2
        /\ Len(Scan(unit.hist[k].source)) >= 3
        /\ Scan(unit.hist[k].before) = SubSeq(Scan(unit.hist[k].source), 1, 2)
        /\ Scan(unit.hist[k].after) = Scan(unit.hist[k].source)

\* The non-empty lines of a file.
NonEmptyLines(f) == {k \in 1..Len(Scan(f)) : Scan(f)[k] # <<>>}

\* No line of the source is the last non-empty line of the destination (which
\* has none when it is empty or all blank).
NothingToResume(dst, src) ==
    \A k \in NonEmptyLines(dst) :
        (\A m \in NonEmptyLines(dst) : m <= k) =>
            \A a \in 1..Len(Scan(src)) : Scan(src)[a] # Scan(dst)[k]

\* C27: fallback. When the destination has no non-empty line, or no line of
\* the source equals its last non-empty line, a successful Upload appends the
\* whole content of the source to the destination, whose previous content
\* stays in place in front of it.
C27_FallbackAppendsAll ==
    \A k \in Calls :
        LET h == unit.hist[k]
        IN (h.nil /\ NothingToResume(h.before, h.source))
           => h.after = h.before \o h.source

C27_Witness ==
    \E k \in Calls :
        /\ unit.hist[k].nil
        /\ unit.hist[k].before # <<>>
        /\ unit.hist[k].source # <<>>
        /\ NothingToResume(unit.hist[k].before, unit.hist[k].source)
        /\ unit.hist[k].after = unit.hist[k].before \o unit.hist[k].source

Attempts == 1..Len(unit.answers)
Succeeded(k) == ~unit.answers[k].err /\ unit.answers[k].code \div 100 = 2

\* C29: the retries of one Upload are bounded. It makes attempts until the
\* first one that succeeds or until the budget is used up: no attempt follows
\* a success, there are at most RetryMax + 1 of them, and an Upload that has
\* returned after sending stopped for one of these two reasons; when every
\* answer was a 500 it made exactly RetryMax + 1 attempts and returned an error.
C29_RetryBounded ==
    /\ Len(unit.answers) <= unit.RetryMax + 1
    /\ \A k \in Attempts : Succeeded(k) => k = Len(unit.answers)
    /\ (unit.at = "returned" /\ unit.answers # <<>>) =>
           \/ Succeeded(Len(unit.answers))
           \/ Len(unit.answers) = unit.RetryMax + 1
    /\ (/\ unit.at = "returned" /\ unit.answers # <<>>
        /\ \A k \in Attempts : unit.answers[k].code = 500) =>
           /\ Len(unit.answers) = unit.RetryMax + 1
           /\ unit.ret # "nil"

\* C30: every response that is not a 2xx, a 4xx like a 5xx, and every
\* transport error is retried while the budget lasts; an error is returned
\* only when the budget is used up, and it identifies the destination.
C30_EveryFailureRetried ==
    (unit.at = "returned" /\ unit.answers # <<>> /\ unit.ret # "nil") =>
        /\ Len(unit.answers) = unit.RetryMax + 1
        /\ unit.names

\* C31: a message of at most maxLineSize characters is stored as it is; a
\* longer one is stored as its first maxLineSize characters followed by the
\* truncation note; timestamp and sequence number are those of the record
\* whatever the length of the message.
C31_Truncation ==
    unit.lineCount > 0 =>
        /\ unit.out.t = unit.in.t
        /\ unit.out.n = unit.lineCount - 1
        /\ Len(unit.in.m) <= maxLineSize => unit.out.m = unit.in.m
        /\ Len(unit.in.m) > maxLineSize =>
               unit.out.m = SubSeq(unit.in.m, 1, maxLineSize) \o Suffix

\* C32: the chunks of a StepSaver are numbered in the order of their creation,
\* from 0 and by steps of 1: its i-th chunk (i from 0) has the destination
\* <stepName>/log.<i>, so that no index is skipped or used twice in a step.
C32_ChunkPaths ==
    \A i \in Savers : \A j \in Files(i) :
        /\ savers[i].logFiles[j].storePath[1] = Clean(savers[i].StepName)
        /\ savers[i].logFiles[j].storePath[2] = j - 1

C32_Witness ==
    \E i \in Savers :
        /\ Len(savers[i].logFiles) = 2
        /\ savers[i].logFiles[1].storePath = <<"a", 0>>
        /\ savers[i].logFiles[2].storePath = <<"a", 1>>

\* The Write calls a StepSaver has returned from: one for each record it got,
\* but for the one whose logFile.Write is still under way.
Returned(i) ==
    Len(savers[i].got) - (IF i = stepSaver /\ pc = "fwrite" THEN 1 ELSE 0)

\* C33: each Write that returns has added exactly 1 to the lineCount of its
\* StepSaver, whether it succeeded, failed to create the chunk or failed to
\* write to it; lineCount counts the Writes made, so it never goes down.
C33_LineCountCountsWrites ==
    ~panicked => \A i \in Savers : savers[i].lineCount = Returned(i)

\* A Write that failed to create the first chunk of its step was counted.
C33_Witness ==
    /\ ret = "writeErr"
    /\ savers[stepSaver].logFiles = <<>>
    /\ savers[stepSaver].lineCount = 1

\* C34: on an empty stream (end of file at the first read) ArchiveLogs
\* returns nil, and no StepSaver was created, no upload made and no line
\* count reported.
C34_EmptyStream ==
    input = <<>> =>
        /\ savers = <<>> /\ saves = {} /\ stepSaver = 0
        /\ ~panicked /\ ~uploadFailed
        /\ (pc = "returned" /\ ret # "readErr") => ret = "nil"

C34_Witness == input = <<>> /\ CleanReturn /\ savers = <<>>

\* C35: no Save uses a chunk whose file has been released. Whatever Saves are
\* still pending when the Close of a chunk has run, none of them calls the
\* uploader for it and none dereferences the released file (which would
\* panic, the dispatcher itself not having panicked).
C35_NoSaveOnReleasedFile ==
    /\ \A i \in Savers : \A j \in Files(i) :
           ~savers[i].logFiles[j].file => savers[i].logFiles[j].uploads = {}
    /\ ~(panicked /\ pc # "panic")

\* The stored records of the run in stream order: those of the first StepSaver,
\* then those of the second, and so on.
RECURSIVE StoredByFirst(_)
StoredByFirst(n) ==
    IF n = 0 THEN <<>> ELSE StoredByFirst(n - 1) \o Stored(savers[n])

\* C36: local mode, nothing failing. Once ArchiveLogs has returned, the
\* destination file holds every stored record of the run, each once, in the
\* order of the stream.
C36_LocalFileExactlyOnceInOrder ==
    (CleanReturn /\ ~panicked) =>
        Scan(unit.dest) =
            [k \in 1..Len(StoredByFirst(Len(savers))) |->
                <<LineText(StoredByFirst(Len(savers))[k])>>]

\* C37: a local Upload that returns nil has lost nothing: every line of the
\* source occurs in the destination afterwards, whatever the destination held
\* before.
C37_LocalUploadLosesNothing ==
    \A k \in Calls :
        unit.hist[k].nil =>
            \A a \in 1..Len(Scan(unit.hist[k].source)) :
                \E b \in 1..Len(Scan(unit.hist[k].after)) :
                    Scan(unit.hist[k].after)[b] = Scan(unit.hist[k].source)[a]

\* C38: ArchiveLogs forwards a record only to a StepSaver that exists: when
\* WriteLog is about to be called, also for the first record of the stream and
\* also when its step name is empty, stepSaver is not nil, and no call on a
\* nil StepSaver ever panics.
C38_SaverExistsBeforeForward ==
    /\ pc = "write" => stepSaver \in Savers
    /\ pc = "panic" => stepSaver \in Savers

\* C39: whenever a record is written, the lines-per-chunk value is at least 1,
\* whatever the -lines-per-file flag and $SD_LINESPERFILE were, so the chunk
\* index lineCount / linesPerFile is defined and Write does not panic on it.
C39_LinesPerFilePositive ==
    /\ pc \in {"write", "fwrite"} => linesPerFile >= 1
    /\ (pc = "panic" /\ stepSaver \in Savers) => linesPerFile >= 1

\* C40: the flush worker that NewStepSaver started terminates after Close:
\* once Close has stopped a StepSaver's ticker, its worker eventually exits.
C40_WorkerExitsAfterClose ==
    \A i \in Workers :
        (i \in DOMAIN unit.workers /\ unit.workers[i].ticker = "stopped")
            ~> (i \in DOMAIN unit.workers /\ unit.workers[i].at = "exited")

====
